---- MODULE Spec2Model ----
(***************************************************************************)
(* A model of the xbot mention pipeline:                                   *)
(*   - the control loop of the bot entrypoint (main), with the durable     *)
(*     since-mention-id cursor shared by every process of one bot account; *)
(*   - getTwitterUserIdMentions, the cursor-bounded mention fetcher;       *)
(*   - resolveMessageThread, the thread resolver;                          *)
(*   - isLikelyTwitterBot, the bot-noise classifier.                       *)
(* Twitter ids are numeric strings; they are modelled by naturals and the  *)
(* JavaScript value undefined by Undefined.                                *)
(***************************************************************************)
EXTENDS Integers, Sequences, FiniteSets, TLC

VARIABLES
    \* ---- control loop (main) ----
    procs,        \* the processes running main() for the same bot account
    persisted,    \* the durable cursor (db.getSinceMentionId / db.setSinceMentionId)
    flags,        \* argv.flags of each process
    pc,           \* where each process is in main()
    ctx,          \* the Context object of each process
    twitterClient,\* the local variable twitterClient of main (a client generation)
    batch,        \* the batch returned by respondToNewMentions in this iteration
    recentSinceMentionId, \* the local read at the cursor re-read
    numBatches,   \* how often respondToNewMentions was invoked
    slept,        \* the delays awaited in the current iteration
    refreshed,    \* whether refreshTwitterAuth ran in the current iteration
    startCursor,  \* history: the durable cursor when the process started
    maxBatchId,   \* history: the maximum batch.sinceMentionId returned so far
    \* ---- one call of getTwitterUserIdMentions ----
    fpc,          \* where the call is
    fflags,       \* argv.flags of the process that makes the call
    fctx,         \* the Context passed to the call
    feed,         \* the mention ids of the remote feed
    newestFirst,  \* whether the feed pages newest first or oldest first
    cacheStore,   \* the mention ids held by the mention cache
    sinceId,      \* opts.since_id (originalSinceMentionId)
    result,       \* the accumulator: mentions, users, tweets, sinceMentionId
    pending,      \* the mentions of the current query not yet paged
    numMentionsInQuery,
    numPagesInQuery,
    dbTweets,     \* the posts upserted by db.upsertTweets
    dbUsers,      \* the authors upserted by db.upsertTwitterUsers
    seed,         \* history: the cached mentions that seeded the result
    live,         \* history: the mentions read from pages, in order
    queries,      \* history: the since_id of every query issued
    counts,       \* history: numMentionsInQuery of every completed query
    cacheRead,    \* history: the cached result was read
    cacheWrites,  \* history: the mention ids upserted to the mention cache
    errored,      \* history: a remote error was caught
    \* ---- one call of resolveMessageThread ----
    tpc,          \* where the call is
    dbMessages,   \* db.messages: the stored turns by id
    remote,       \* the remote posts: replied_to references, unfetchable ids
    resolvePrevTweetsInThread, \* the option of the call
    leafMessage,  \* the turn passed to the call
    message,      \* the local variable message
    messages,     \* the local variable messages
    tweet,        \* the local variable tweet
    prevTweetsInThread,
    output,       \* the returned chat messages
    numGets,      \* history: calls of db.messages.get
    numFetches,   \* history: calls of db.tryGetTweetById
    \* ---- one call of isLikelyTwitterBot ----
    bpc,          \* where the call is
    username,     \* the argument, a sequence of characters
    lowerName,    \* history: the lower-case name the argument is a variant of
    isBot         \* the returned value

fetchVars == <<fpc, fflags, fctx, feed, newestFirst, cacheStore, sinceId, result,
               pending, numMentionsInQuery, numPagesInQuery, dbTweets, dbUsers,
               seed, live, queries, counts, cacheRead, cacheWrites, errored>>

threadVars == <<tpc, dbMessages, remote, resolvePrevTweetsInThread,
                leafMessage, message, messages, tweet, prevTweetsInThread, output, numGets,
                numFetches>>

botVars == <<bpc, username, lowerName, isBot>>

loopVars == <<procs, persisted, flags, pc, ctx, twitterClient, batch,
              recentSinceMentionId, numBatches, slept, refreshed,
              startCursor, maxBatchId>>

----------------------------------------------------------------------------
\* Bounds of the model
MaxCursorId == 2
MaxBatches == 2
MaxConcBatches == 1
MaxMentionId == 6
PageSize == 2
MaxTurns == 3
MaxPrevTweets == 2
MaxPrefixLen == 1

\* if (numMentionsInQuery < 5 || ...)
Threshold == 5

\* undefined (also: no value stored)
Undefined == -1

CursorIds == 0..MaxCursorId
CursorIdOrUndefined == CursorIds \cup {Undefined}

\* JavaScript truthiness of a string | undefined value: every id, '0' included,
\* is a non-empty string and so truthy
Truthy(id) == id # Undefined

\* maxTwitterId(a, b): the larger of two ids in numeric order, an undefined
\* argument yielding the other one
maxTwitterId(tweetIdA, tweetIdB) ==
    IF ~Truthy(tweetIdA) /\ ~Truthy(tweetIdB) THEN Undefined
    ELSE IF ~Truthy(tweetIdA) THEN tweetIdB
    ELSE IF ~Truthy(tweetIdB) THEN tweetIdA
    ELSE IF tweetIdA < tweetIdB THEN tweetIdB ELSE tweetIdA

\* a <= b in numeric twitter-id order, no cursor being below every id
NumericLeq(a, b) == a = Undefined \/ (b # Undefined /\ a <= b)

MaxOf(S) == CHOOSE x \in S : \A y \in S : y <= x

\* argv.flags: the flags that reach the Context or the cursor
Flags ==
    [dryRun : BOOLEAN, noMentionsCache : BOOLEAN, earlyExit : BOOLEAN,
     resolveAllMentions : BOOLEAN, debugTweetIds : {<<>>, <<1>>},
     sinceMentionId : CursorIdOrUndefined]

\* a TweetMentionBatch, as far as main reads it
TweetMentionBatch ==
    [sinceMentionId : CursorIdOrUndefined, hasNetworkError : BOOLEAN,
     hasTwitterRateLimitError : BOOLEAN, hasTwitterAuthError : BOOLEAN]

NoBatch ==
    [sinceMentionId |-> Undefined, hasNetworkError |-> FALSE,
     hasTwitterRateLimitError |-> FALSE, hasTwitterAuthError |-> FALSE]

\* let initialSinceMentionId = (resolveAllMentions ? undefined
\*     : flags.sinceMentionId || (await db.getSinceMentionId(..))) ?? '0'
initialSinceMentionId(f, stored) ==
    LET v == IF f.resolveAllMentions THEN Undefined
             ELSE IF Truthy(f.sinceMentionId) THEN f.sinceMentionId
             ELSE stored
    IN  IF v = Undefined THEN 0 ELSE v

\* const ctx: types.Context = { sinceMentionId: initialSinceMentionId, ... }
\* The object literal sets noMentionsCache; it sets no noCache property.
MakeCtx(f, initial, client) ==
    [sinceMentionId |-> initial,
     twitterClient |-> client,
     dryRun |-> f.dryRun,
     noMentionsCache |-> f.noMentionsCache,
     earlyExit |-> f.earlyExit,
     resolveAllMentions |-> f.resolveAllMentions,
     debugTweetIds |-> f.debugTweetIds]

NoFlags ==
    [dryRun |-> FALSE, noMentionsCache |-> FALSE, earlyExit |-> FALSE,
     resolveAllMentions |-> FALSE, debugTweetIds |-> <<>>,
     sinceMentionId |-> Undefined]

\* if (batch.sinceMentionId && !ctx.debugTweetIds?.length)
BatchAdvancesCursor(c, b) ==
    Truthy(b.sinceMentionId) /\ Len(c.debugTweetIds) = 0

\* (mutant) the in-memory cursor is replaced by the batch's, not merged with it
AdvanceLocalCursor_Replace(local, batchId) == batchId

\* ctx.sinceMentionId = maxTwitterId(ctx.sinceMentionId, batch.sinceMentionId)
AdvanceLocalCursor(local, batchId) == maxTwitterId(local, batchId)

\* (mutant) the re-read durable cursor is dropped
SyncWithStore_NoMerge(local, recent) == local

\* (mutant) the re-read durable cursor is used only when no local cursor is set
SyncWithStore_LocalFirst(local, recent) ==
    IF Truthy(local) THEN local ELSE recent

\* ctx.sinceMentionId = maxTwitterId(ctx.sinceMentionId, recentSinceMentionId)
SyncWithStore(local, recent) == maxTwitterId(local, recent)

\* (mutant) the cursor is written in dry-run mode too
ShouldPersist_IgnoreDryRun(c) == Truthy(c.sinceMentionId)

\* if (ctx.sinceMentionId && !ctx.dryRun)
ShouldPersist(c) == Truthy(c.sinceMentionId) /\ ~c.dryRun

\* if (!ctx.resolveAllMentions)
UsesCursorStore(c) == ~c.resolveAllMentions

\* (mutant) a non-empty debug tweet-id set does not end the loop
ShouldExit_EarlyExitOnly(c, debugTweetIds) == c.earlyExit

\* if (ctx.earlyExit) break ... if (debugTweetIds?.length) break
ShouldExit(c, debugTweetIds) == c.earlyExit \/ Len(debugTweetIds) > 0

\* (mutant) the mitigations are chained with else: the rate-limit sleep is
\* skipped after a network sleep
SleepsForRateLimit_ElseIf(b) ==
    b.hasTwitterRateLimitError /\ ~b.hasNetworkError

\* if (batch.hasTwitterRateLimitError)
SleepsForRateLimit(b) == b.hasTwitterRateLimitError

\* the number of batches a process of the model runs: fewer when several
\* processes interleave
BatchLimit(P) == IF Cardinality(P) > 1 THEN MaxConcBatches ELSE MaxBatches

----------------------------------------------------------------------------
\* The control loop

InitLoop(P, F) ==
    /\ procs = P
    /\ persisted \in CursorIdOrUndefined
    /\ flags \in [P -> F]
    /\ pc = [p \in P |-> "start"]
    /\ ctx = [p \in P |-> MakeCtx(NoFlags, Undefined, 0)]
    /\ twitterClient = [p \in P |-> 0]
    /\ batch = [p \in P |-> NoBatch]
    /\ recentSinceMentionId = [p \in P |-> Undefined]
    /\ numBatches = [p \in P |-> 0]
    /\ slept = [p \in P |-> {}]
    /\ refreshed = [p \in P |-> FALSE]
    /\ startCursor = [p \in P |-> persisted]
    /\ maxBatchId = [p \in P |-> Undefined]

\* main up to the construction of ctx: twitter client, bot identity, initial cursor
Startup(p) ==
    /\ pc[p] = "start"
    /\ twitterClient' = [twitterClient EXCEPT ![p] = 1]
    /\ ctx' = [ctx EXCEPT ![p] =
                 MakeCtx(flags[p], initialSinceMentionId(flags[p], persisted), 1)]
    /\ startCursor' = [startCursor EXCEPT ![p] = persisted]
    /\ pc' = [pc EXCEPT ![p] = "batch"]
    /\ UNCHANGED <<fetchVars, threadVars, botVars>>
    /\ UNCHANGED <<procs, persisted, flags, batch, recentSinceMentionId,
                   numBatches, slept, refreshed, maxBatchId>>

\* getTwitterClient or findMyUser throws, the bot's user id is missing, or the
\* startup read of the cursor throws: main rejects and the process exits with 1
StartupFails(p) ==
    /\ pc[p] = "start"
    /\ pc' = [pc EXCEPT ![p] = "exit1"]
    /\ UNCHANGED <<fetchVars, threadVars, botVars>>
    /\ UNCHANGED <<procs, persisted, flags, ctx, twitterClient, batch,
                   recentSinceMentionId, numBatches, slept, refreshed,
                   startCursor, maxBatchId>>

\* const batch = await respondToNewMentions(ctx); batches.push(batch);
\* the in-memory cursor is advanced
RunBatch(p, b) ==
    /\ pc[p] = "batch"
    /\ numBatches[p] < BatchLimit(procs)
    /\ numBatches' = [numBatches EXCEPT ![p] = @ + 1]
    /\ batch' = [batch EXCEPT ![p] = b]
    /\ slept' = [slept EXCEPT ![p] = {}]
    /\ refreshed' = [refreshed EXCEPT ![p] = FALSE]
    /\ maxBatchId' = [maxBatchId EXCEPT ![p] = maxTwitterId(@, b.sinceMentionId)]
    /\ IF BatchAdvancesCursor(ctx[p], b)
       THEN /\ ctx' = [ctx EXCEPT ![p].sinceMentionId =
                         AdvanceLocalCursor(@, b.sinceMentionId)]
            /\ pc' = [pc EXCEPT ![p] =
                        IF UsesCursorStore(ctx[p]) THEN "read" ELSE "exitCheck"]
       ELSE /\ ctx' = ctx
            /\ pc' = [pc EXCEPT ![p] = "exitCheck"]
    /\ UNCHANGED <<fetchVars, threadVars, botVars>>
    /\ UNCHANGED <<procs, persisted, flags, twitterClient,
                   recentSinceMentionId, startCursor>>

\* respondToNewMentions throws
BatchThrows(p) ==
    /\ pc[p] = "batch"
    /\ numBatches[p] < BatchLimit(procs)
    /\ numBatches' = [numBatches EXCEPT ![p] = @ + 1]
    /\ batch' = [batch EXCEPT ![p] = NoBatch]
    /\ slept' = [slept EXCEPT ![p] = {}]
    /\ refreshed' = [refreshed EXCEPT ![p] = FALSE]
    /\ pc' = [pc EXCEPT ![p] = "catch"]
    /\ UNCHANGED <<fetchVars, threadVars, botVars>>
    /\ UNCHANGED <<procs, persisted, flags, ctx, twitterClient,
                   recentSinceMentionId, startCursor, maxBatchId>>

\* const recentSinceMentionId = await db.getSinceMentionId(ctx), merged into ctx
ReadCursor(p) ==
    /\ pc[p] = "read"
    /\ recentSinceMentionId' = [recentSinceMentionId EXCEPT ![p] = persisted]
    /\ LET merged == SyncWithStore(ctx[p].sinceMentionId, persisted)
           c == [ctx[p] EXCEPT !.sinceMentionId = merged]
       IN  /\ ctx' = [ctx EXCEPT ![p] = c]
           /\ pc' = [pc EXCEPT ![p] =
                       IF ShouldPersist(c) THEN "write" ELSE "exitCheck"]
    /\ UNCHANGED <<fetchVars, threadVars, botVars>>
    /\ UNCHANGED <<procs, persisted, flags, twitterClient, batch, numBatches,
                   slept, refreshed, startCursor, maxBatchId>>

\* await db.setSinceMentionId(ctx.sinceMentionId, ctx)
WriteCursor(p) ==
    /\ pc[p] = "write"
    /\ persisted' = ctx[p].sinceMentionId
    /\ pc' = [pc EXCEPT ![p] = "exitCheck"]
    /\ UNCHANGED <<fetchVars, threadVars, botVars>>
    /\ UNCHANGED <<procs, flags, ctx, twitterClient, batch,
                   recentSinceMentionId, numBatches, slept, refreshed,
                   startCursor, maxBatchId>>

\* db.getSinceMentionId or db.setSinceMentionId throws inside the try block
StoreThrows(p) ==
    /\ pc[p] \in {"read", "write"}
    /\ pc' = [pc EXCEPT ![p] = "catch"]
    /\ UNCHANGED <<fetchVars, threadVars, botVars>>
    /\ UNCHANGED <<procs, persisted, flags, ctx, twitterClient, batch,
                   recentSinceMentionId, numBatches, slept, refreshed,
                   startCursor, maxBatchId>>

\* if (ctx.earlyExit) break ... if (debugTweetIds?.length) break
ExitCheck(p) ==
    /\ pc[p] = "exitCheck"
    /\ pc' = [pc EXCEPT ![p] =
                IF ShouldExit(ctx[p], flags[p].debugTweetIds)
                THEN "exit0" ELSE "network"]
    /\ UNCHANGED <<fetchVars, threadVars, botVars>>
    /\ UNCHANGED <<procs, persisted, flags, ctx, twitterClient, batch,
                   recentSinceMentionId, numBatches, slept, refreshed,
                   startCursor, maxBatchId>>

\* if (batch.hasNetworkError) await delay(10_000)
NetworkBackoff(p) ==
    /\ pc[p] = "network"
    /\ slept' = [slept EXCEPT ![p] =
                   IF batch[p].hasNetworkError THEN @ \cup {10000} ELSE @]
    /\ pc' = [pc EXCEPT ![p] = "rateLimit"]
    /\ UNCHANGED <<fetchVars, threadVars, botVars>>
    /\ UNCHANGED <<procs, persisted, flags, ctx, twitterClient, batch,
                   recentSinceMentionId, numBatches, refreshed, startCursor,
                   maxBatchId>>

\* if (batch.hasTwitterRateLimitError) await delay(30_000)
RateLimitBackoff(p) ==
    /\ pc[p] = "rateLimit"
    /\ slept' = [slept EXCEPT ![p] =
                   IF SleepsForRateLimit(batch[p]) THEN @ \cup {30000} ELSE @]
    /\ pc' = [pc EXCEPT ![p] = "auth"]
    /\ UNCHANGED <<fetchVars, threadVars, botVars>>
    /\ UNCHANGED <<procs, persisted, flags, ctx, twitterClient, batch,
                   recentSinceMentionId, numBatches, refreshed, startCursor,
                   maxBatchId>>

\* async function refreshTwitterAuth() { twitterClient = await getTwitterClient() }
\* assigns the local variable of main; ctx.twitterClient is not assigned
refreshTwitterAuth(p) ==
    /\ twitterClient' = [twitterClient EXCEPT ![p] = @ + 1]
    /\ refreshed' = [refreshed EXCEPT ![p] = TRUE]

\* if (batch.hasTwitterAuthError) await refreshTwitterAuth()
AuthRefresh(p) ==
    /\ pc[p] = "auth"
    /\ IF batch[p].hasTwitterAuthError
       THEN refreshTwitterAuth(p)
       ELSE UNCHANGED <<twitterClient, refreshed>>
    /\ pc' = [pc EXCEPT ![p] = "batch"]
    /\ UNCHANGED <<fetchVars, threadVars, botVars>>
    /\ UNCHANGED <<procs, persisted, flags, ctx, batch, recentSinceMentionId,
                   numBatches, slept, startCursor, maxBatchId>>

\* getTwitterClient throws in the refresh of the try block
AuthRefreshThrows(p) ==
    /\ pc[p] = "auth"
    /\ batch[p].hasTwitterAuthError
    /\ pc' = [pc EXCEPT ![p] = "catch"]
    /\ UNCHANGED <<fetchVars, threadVars, botVars>>
    /\ UNCHANGED <<procs, persisted, flags, ctx, twitterClient, batch,
                   recentSinceMentionId, numBatches, slept, refreshed,
                   startCursor, maxBatchId>>

\* catch (err) { await delay(5000); await refreshTwitterAuth() }
CatchTopLevel(p) ==
    /\ pc[p] = "catch"
    /\ slept' = [slept EXCEPT ![p] = @ \cup {5000}]
    /\ refreshTwitterAuth(p)
    /\ pc' = [pc EXCEPT ![p] = "batch"]
    /\ UNCHANGED <<fetchVars, threadVars, botVars>>
    /\ UNCHANGED <<procs, persisted, flags, ctx, batch, recentSinceMentionId,
                   numBatches, startCursor, maxBatchId>>

\* getTwitterClient throws in the refresh of the catch block: main rejects
CatchRefreshThrows(p) ==
    /\ pc[p] = "catch"
    /\ slept' = [slept EXCEPT ![p] = @ \cup {5000}]
    /\ pc' = [pc EXCEPT ![p] = "exit1"]
    /\ UNCHANGED <<fetchVars, threadVars, botVars>>
    /\ UNCHANGED <<procs, persisted, flags, ctx, twitterClient, batch,
                   recentSinceMentionId, numBatches, refreshed, startCursor,
                   maxBatchId>>

----------------------------------------------------------------------------
\* isLikelyTwitterBot

\* A username is a sequence of characters. The letters of the model, in lower
\* and in upper case at the same index; any other character has no case.
LowerChars ==
    <<"a", "b", "d", "e", "g", "h", "k", "o", "p", "r", "s", "t", "u", "x">>

UpperChars ==
    <<"A", "B", "D", "E", "G", "H", "K", "O", "P", "R", "S", "T", "U", "X">>

\* String.prototype.toLowerCase, one character
toLowerCaseChar(c) ==
    IF \E i \in 1..Len(UpperChars) : UpperChars[i] = c
    THEN LowerChars[CHOOSE i \in 1..Len(UpperChars) : UpperChars[i] = c]
    ELSE c

\* String.prototype.toLowerCase
toLowerCase(str) == [i \in 1..Len(str) |-> toLowerCaseChar(str[i])]

\* entries of the curated list, as written in the source: 'threader', 'AskDexa'
KnownBotsList ==
    {<<"t", "h", "r", "e", "a", "d", "e", "r">>,
     <<"A", "s", "k", "D", "e", "x", "a">>}

\* export const twitterKnownBots = new Set([...].map((s) => s.toLowerCase()))
twitterKnownBots == {toLowerCase(str) : str \in KnownBotsList}

\* /<suffix>$/.test(str)
EndsWith(str, suffix) ==
    /\ Len(str) >= Len(suffix)
    /\ SubSeq(str, Len(str) - Len(suffix) + 1, Len(str)) = suffix

\* return twitterKnownBots.has(username.toLowerCase())
isKnownTwitterBot(name) == toLowerCase(name) \in twitterKnownBots

\* (mutant) the username is not lowercased before the suffix tests
isLikelyTwitterBot_CaseSensitive(name) ==
    \/ isKnownTwitterBot(name)
    \/ EndsWith(name, <<"b", "o", "t">>)
    \/ EndsWith(name, <<"g", "p", "t">>)
    \/ EndsWith(name, <<"s", "t", "a", "t", "u", "s">>)

\* username = username.toLowerCase(); if (isKnownTwitterBot(username)) return true
\* if (/bot$/.test(username)) return true ... return false
isLikelyTwitterBot(name) ==
    LET lowered == toLowerCase(name)
    IN  \/ isKnownTwitterBot(lowered)
        \/ EndsWith(lowered, <<"b", "o", "t">>)
        \/ EndsWith(lowered, <<"g", "p", "t">>)
        \/ EndsWith(lowered, <<"s", "t", "a", "t", "u", "s">>)

\* the state of the classifier while no call is modelled
BotIdle ==
    /\ bpc = "off"
    /\ username = <<>>
    /\ lowerName = <<>>
    /\ isBot = FALSE

\* The lower-case names of the model: a prefix of up to MaxPrefixLen characters
\* followed by a stem that is a known bot, a suffix of the heuristics, a
\* suffix cut short or continued, or nothing.
NameStems ==
    {<<>>,
     <<"b", "o", "t">>, <<"g", "p", "t">>, <<"s", "t", "a", "t", "u", "s">>,
     <<"b", "o">>, <<"b", "o", "t", "s">>, <<"g", "p">>,
     <<"s", "t", "a", "t", "u">>,
     <<"t", "h", "r", "e", "a", "d", "e", "r">>,
     <<"a", "s", "k", "d", "e", "x", "a">>}

NamePrefixes == UNION {[1..k -> {"a", "_"}] : k \in 0..MaxPrefixLen}

\* the upper-case form of a character of a lower-case name
UpperOf(c) ==
    IF \E i \in 1..Len(LowerChars) : LowerChars[i] = c
    THEN UpperChars[CHOOSE i \in 1..Len(LowerChars) : LowerChars[i] = c]
    ELSE c

\* the argument of a call: any upper/lower-case variant of a name
InitBotCall ==
    /\ \E prefix \in NamePrefixes, stem \in NameStems :
          lowerName = prefix \o stem
    /\ \E upper \in SUBSET (1..Len(lowerName)) :
          username = [i \in 1..Len(lowerName) |->
                         IF i \in upper THEN UpperOf(lowerName[i])
                         ELSE lowerName[i]]
    /\ isBot = FALSE
    /\ bpc = "call"

\* export function isLikelyTwitterBot(username: string)
Classify ==
    /\ bpc = "call"
    /\ isBot' = isLikelyTwitterBot(username)
    /\ bpc' = "done"
    /\ UNCHANGED <<username, lowerName>>
    /\ UNCHANGED <<loopVars, fetchVars, threadVars>>

NextBot == Classify

----------------------------------------------------------------------------
\* resolveMessageThread

\* Remote posts older than every turn of the bot, and the turns. A turn's id is
\* the id of its prompt tweet; a post replies to an older post, so ids grow
\* along every reply chain.
PrevTweetIds == 1..MaxPrevTweets
TurnIds == (MaxPrevTweets + 1)..(MaxPrevTweets + MaxTurns)

\* types.Message. The texts prompt and response are modelled by tagged ids, a
\* missing (or empty) response by the empty sequence. ref tells the object
\* passed to the call ("arg") from the objects db.messages.get returns ("db"):
\* it carries the object identity that === compares.
Message(id, parent, hasError, hasResponse, ref) ==
    [id |-> id,
     prompt |-> <<"prompt", id>>,
     promptTweetId |-> id,
     response |-> IF hasResponse THEN <<"response", id>> ELSE <<>>,
     parentMessageId |-> parent,
     error |-> hasError,
     ref |-> ref]

NoMessage == Message(Undefined, Undefined, FALSE, FALSE, "none")

\* types.Tweet, with the id of its replied_to reference
Tweet(id, repliedTo) ==
    [id |-> id, text |-> <<"tweet", id>>, replied_to |-> repliedTo]

NoTweet == Tweet(Undefined, Undefined)

\* db.messages.get(id)
dbMessagesGet(st, id) == IF id \in DOMAIN st THEN st[id] ELSE NoMessage

\* db.tryGetTweetById(id, ctx, { force: true }): the post, or nothing when it
\* cannot be fetched
tryGetTweetById(rt, id) ==
    IF id \in DOMAIN rt.repliedTo /\ id \notin rt.unfetchable
    THEN Tweet(id, rt.repliedTo[id])
    ELSE NoTweet

\* Msg.user(content), Msg.assistant(content)
MsgUser(content) == [role |-> "user", content |-> content]
MsgAssistant(content) == [role |-> "assistant", content |-> content]

\* (mutant) the store is asked for a parent even when the turn names none
HasParent_Always(m) == TRUE

\* if (!message.parentMessageId) break
HasParent(m) == m.parentMessageId # Undefined

\* (mutant) a parent that is not in the store throws
AfterParentLookup_Throw(parentMessage) ==
    IF parentMessage = NoMessage THEN "throw" ELSE "push"

\* if (!parentMessage) break; message = parentMessage; messages.push(message)
AfterParentLookup(parentMessage) ==
    IF parentMessage = NoMessage THEN "break" ELSE "push"

\* (mutant) the lists are left newest first
Reverse_None(q) == q

\* messages.reverse(); prevTweetsInThread.reverse()
Reverse(q) == [i \in 1..Len(q) |-> q[Len(q) + 1 - i]]

\* m === leafMessage
IsLeafMessage(m) == m.ref = "arg"

\* (mutant) every errored turn is dropped, the leaf too
KeepInThread_NoLeaf(m) == ~m.error

\* messages.filter((m) => !m.error || m === leafMessage)
KeepInThread(m) == ~m.error \/ IsLeafMessage(m)

\* (mutant) the leaf's response is rendered too
RenderTurn_LeafToo(m) ==
    <<MsgUser(m.prompt)>> \o
    (IF m.response # <<>> THEN <<MsgAssistant(m.response)>> ELSE <<>>)

\* [Msg.user(message.prompt), message.response && message !== leafMessage
\*    ? Msg.assistant(message.response!) : null].filter(Boolean)
RenderTurn(m) ==
    <<MsgUser(m.prompt)>> \o
    (IF m.response # <<>> /\ ~IsLeafMessage(m)
     THEN <<MsgAssistant(m.response)>> ELSE <<>>)

\* messages.flatMap(...)
RECURSIVE chatMessagesForBotMessages(_)
chatMessagesForBotMessages(ms) ==
    IF ms = <<>> THEN <<>>
    ELSE RenderTurn(Head(ms)) \o chatMessagesForBotMessages(Tail(ms))

\* prevTweetsInThread.map((tweet) => Msg.user(tweet.text))
chatMessagesForPrevTweets(ts) == [i \in 1..Len(ts) |-> MsgUser(ts[i].text)]

\* the state of the resolver while no call is modelled
ThreadIdle ==
    /\ tpc = "off"
    /\ dbMessages = <<>>
    /\ remote = [repliedTo |-> <<>>, unfetchable |-> {}]
    /\ resolvePrevTweetsInThread = TRUE
    /\ leafMessage = NoMessage
    /\ message = NoMessage
    /\ messages = <<>>
    /\ tweet = NoTweet
    /\ prevTweetsInThread = <<>>
    /\ output = <<>>
    /\ numGets = 0
    /\ numFetches = 0

\* the parent of a turn of the chain: the turn before it, none for the first id
ParentIdOf(t) == IF t = MaxPrevTweets + 1 THEN Undefined ELSE t - 1

\* The stores of a call: the turns on the parent chain of the leaf, each the
\* reply to the turn before it; the turns from `first` up to `last` are stored
\* (the parent of `first`, when it has one, is not in the store), with any
\* errors and responses. Turns off the chain are never read.
ThreadStore(first, last, errors, responses) ==
    [t \in first..last |->
        Message(t, ParentIdOf(t), t \in errors, t \in responses, "db")]

\* The remote posts of a call: the prompt tweet of every turn replies to
\* `anchor` (or to nothing), an older post replies to the one before it, and
\* the posts of `lost` cannot be fetched (deleted, not permitted).
RemotePosts(anchor, lost) ==
    [repliedTo |-> [t \in PrevTweetIds \cup TurnIds |->
                       IF t \in TurnIds THEN anchor
                       ELSE IF t = 1 THEN Undefined ELSE t - 1],
     unfetchable |-> lost]

\* const prevTweetsInThread = []; const leafMessage = message;
\* let messages = [message]
\* The leaf is a turn made for a new mention, not stored yet, or a stored turn
\* that is resolved again.
InitThreadCall ==
    /\ \E last \in TurnIds : \E first \in TurnIds :
         /\ first <= last
         /\ \E errors \in SUBSET (first..last), responses \in SUBSET (first..last),
               leafStored \in BOOLEAN :
              /\ dbMessages =
                    ThreadStore(first, IF leafStored THEN last ELSE last - 1,
                                errors, responses)
              /\ leafMessage =
                    Message(last, ParentIdOf(last), last \in errors,
                            last \in responses, "arg")
         /\ resolvePrevTweetsInThread \in BOOLEAN
         /\ IF resolvePrevTweetsInThread
            THEN \E anchor \in PrevTweetIds \cup {Undefined},
                    lost \in SUBSET (PrevTweetIds \cup {first}) :
                     remote = RemotePosts(anchor, lost)
            ELSE remote = RemotePosts(Undefined, {})
    /\ message = leafMessage
    /\ messages = <<leafMessage>>
    /\ tweet = NoTweet
    /\ prevTweetsInThread = <<>>
    /\ output = <<>>
    /\ numGets = 0
    /\ numFetches = 0
    /\ tpc = "local"

\* do { if (!message.parentMessageId) break
\*      const parentMessage = await db.messages.get(message.parentMessageId)
\*      if (!parentMessage) break
\*      message = parentMessage; messages.push(message) } while (true)
WalkParent ==
    /\ tpc = "local"
    /\ LET afterLoop == IF resolvePrevTweetsInThread THEN "prompt" ELSE "render"
       IN  IF ~HasParent(message)
           THEN /\ tpc' = afterLoop
                /\ UNCHANGED <<message, messages, numGets>>
           ELSE LET parentMessage ==
                        dbMessagesGet(dbMessages, message.parentMessageId)
                    outcome == AfterParentLookup(parentMessage)
                IN  /\ numGets' = numGets + 1
                    /\ IF outcome = "push"
                       THEN /\ message' = parentMessage
                            /\ messages' = Append(messages, parentMessage)
                            /\ tpc' = "local"
                       ELSE /\ tpc' = IF outcome = "break" THEN afterLoop
                                      ELSE "failed"
                            /\ UNCHANGED <<message, messages>>
    /\ UNCHANGED <<loopVars, fetchVars, botVars>>
    /\ UNCHANGED <<dbMessages, remote, resolvePrevTweetsInThread, leafMessage,
                   tweet, prevTweetsInThread, output, numFetches>>

\* let tweet = await db.tryGetTweetById(message.promptTweetId, ctx, { force: true })
FetchPromptTweet ==
    /\ tpc = "prompt"
    /\ tweet' = tryGetTweetById(remote, message.promptTweetId)
    /\ numFetches' = numFetches + 1
    /\ tpc' = "remote"
    /\ UNCHANGED <<loopVars, fetchVars, botVars>>
    /\ UNCHANGED <<dbMessages, remote, resolvePrevTweetsInThread, leafMessage,
                   message, messages, prevTweetsInThread, output, numGets>>

\* while (tweet) { const repliedToTweetRef = tweet.referenced_tweets?.find(..)
\*   if (!repliedToTweetRef) break
\*   const repliedToTweet = await db.tryGetTweetById(repliedToTweetRef.id, ..)
\*   if (!repliedToTweet) break
\*   tweet = repliedToTweet; prevTweetsInThread.push(tweet) }
WalkRepliedTo ==
    /\ tpc = "remote"
    /\ IF tweet = NoTweet \/ tweet.replied_to = Undefined
       THEN /\ tpc' = "render"
            /\ UNCHANGED <<tweet, prevTweetsInThread, numFetches>>
       ELSE LET repliedToTweet == tryGetTweetById(remote, tweet.replied_to)
            IN  /\ numFetches' = numFetches + 1
                /\ IF repliedToTweet = NoTweet
                   THEN /\ tpc' = "render"
                        /\ UNCHANGED <<tweet, prevTweetsInThread>>
                   ELSE /\ tweet' = repliedToTweet
                        /\ prevTweetsInThread' =
                               Append(prevTweetsInThread, repliedToTweet)
                        /\ tpc' = "remote"
    /\ UNCHANGED <<loopVars, fetchVars, botVars>>
    /\ UNCHANGED <<dbMessages, remote, resolvePrevTweetsInThread, leafMessage,
                   message, messages, output, numGets>>

\* messages.reverse(); prevTweetsInThread.reverse(); messages = messages.filter(..)
\* return chatMessagesForPrevTweets.concat(chatMessagesForBotMessages)
Render ==
    /\ tpc = "render"
    /\ messages' = SelectSeq(Reverse(messages), KeepInThread)
    /\ prevTweetsInThread' = Reverse(prevTweetsInThread)
    /\ output' = chatMessagesForPrevTweets(prevTweetsInThread') \o
                 chatMessagesForBotMessages(messages')
    /\ tpc' = "done"
    /\ UNCHANGED <<loopVars, fetchVars, botVars>>
    /\ UNCHANGED <<dbMessages, remote, resolvePrevTweetsInThread, leafMessage,
                   message, tweet, numGets, numFetches>>

NextThread ==
    \/ WalkParent
    \/ FetchPromptTweet
    \/ WalkRepliedTo
    \/ Render

----------------------------------------------------------------------------
\* getTwitterUserIdMentions

MentionIds == 1..MaxMentionId

Range(q) == {q[i] : i \in 1..Len(q)}

\* the ids of S as a sequence, ascending
Ascending(S) ==
    [i \in 1..Cardinality(S) |->
        CHOOSE x \in S : Cardinality({y \in S : y <= x}) = i]

\* the ids of S as a sequence, descending
Descending(S) ==
    [i \in 1..Cardinality(S) |->
        CHOOSE x \in S : Cardinality({y \in S : y >= x}) = i]

\* the author of a mention (page.includes.users) and the post it refers to
\* (page.includes.tweets)
AuthorOf(m) == 100 + (m % 2)
ReferencedBy(m) == 200 + (m \div 2)

EmptyResult(since) ==
    [mentions |-> <<>>, users |-> {}, tweets |-> {}, sinceMentionId |-> since]

\* the argument respondToNewMentions passes as opts.since_id
FetchSinceId(c) == c.sinceMentionId

\* ctx.noCache: a property the object does not have reads as undefined (falsy)
CtxNoCache(c) == IF "noCache" \in DOMAIN c THEN c.noCache ELSE FALSE

\* db.getCachedUserMentionsForUserSince({ userId, sinceMentionId }): the cached
\* mentions above sinceMentionId, with the maximum identifier observed
getCachedUserMentionsForUserSince(store, since) ==
    LET ms == {m \in store : m > since}
    IN  [mentions |-> Ascending(ms),
         users |-> {AuthorOf(m) : m \in ms},
         tweets |-> {ReferencedBy(m) : m \in ms},
         sinceMentionId |-> IF ms = {} THEN since ELSE MaxOf(ms)]

\* twitter.usersIdMentions(userId, { since_id }): the mentions above since_id
QueryResult(f, since) ==
    {m \in f : ~Truthy(since) \/ m > since}

\* the next page of a query: at most PageSize mentions, in the feed's order
NextPageOf(rest, newest) ==
    LET all == IF newest THEN Descending(rest) ELSE Ascending(rest)
    IN  SubSeq(all, 1, IF Len(all) < PageSize THEN Len(all) ELSE PageSize)

\* (mutant) the working since id follows the first mention of the page read
RaiseSinceId_First(since, page) ==
    IF Len(page) = 0 THEN since ELSE page[1]

\* (mutant) the working since id follows the last mention read
RaiseSinceId_Last(since, page) ==
    IF Len(page) = 0 THEN since ELSE page[Len(page)]

\* for (const mention of page.data)
\*   result.sinceMentionId = maxTwitterId(result.sinceMentionId, mention.id)
RECURSIVE RaiseSinceId(_, _)
RaiseSinceId(since, page) ==
    IF Len(page) = 0 THEN since
    ELSE RaiseSinceId(maxTwitterId(since, Head(page)), Tail(page))

\* (mutant) every query ends the loop
StopAfterQuery_Always(num, c) == TRUE

\* if (numMentionsInQuery < 5 || !ctx.resolveAllMentions) break
StopAfterQuery(num, c) == num < Threshold \/ ~c.resolveAllMentions

\* (mutant) a remote error always fails the call
CatchOutcome_Throw(r) == "thrown"

\* (mutant) a remote error always ends the call with what was gathered
CatchOutcome_Break(r) == "flush"

\* (mutant) a remote error after some mentions returns at once, without the
\* upserts that follow the loop
CatchOutcome_ReturnUnflushed(r) ==
    IF Len(r.mentions) > 0 THEN "returned" ELSE "thrown"

\* catch (err): if (result.mentions.length) break; else ... throw new BotError
CatchOutcome(r) == IF Len(r.mentions) > 0 THEN "flush" ELSE "thrown"

\* the state of the fetcher while no call is modelled
FetchIdle ==
    /\ fpc = "off"
    /\ fflags = NoFlags
    /\ fctx = MakeCtx(NoFlags, Undefined, 0)
    /\ feed = {}
    /\ newestFirst = TRUE
    /\ cacheStore = {}
    /\ sinceId = Undefined
    /\ result = EmptyResult(Undefined)
    /\ pending = {}
    /\ numMentionsInQuery = 0
    /\ numPagesInQuery = 0
    /\ dbTweets = {}
    /\ dbUsers = {}
    /\ seed = <<>>
    /\ live = <<>>
    /\ queries = <<>>
    /\ counts = <<>>
    /\ cacheRead = FALSE
    /\ cacheWrites = {}
    /\ errored = FALSE

\* the flags of a process whose batch fetches mentions
FetchFlags ==
    {f \in Flags : /\ ~f.dryRun /\ ~f.earlyExit /\ f.debugTweetIds = <<>>
                   /\ f.sinceMentionId \in {Undefined, MaxCursorId}}

\* const originalSinceMentionId = opts.since_id; let result = { mentions: [], ... }
InitFetch ==
    /\ InitLoop({}, Flags)
    /\ ThreadIdle
    /\ BotIdle
    /\ fflags \in FetchFlags
    /\ fctx = MakeCtx(fflags, initialSinceMentionId(fflags, persisted), 1)
    /\ \E n \in 0..MaxMentionId : feed = 1..n
    /\ newestFirst \in BOOLEAN
    /\ cacheStore \in SUBSET feed
    /\ sinceId = FetchSinceId(fctx)
    /\ result = EmptyResult(sinceId)
    /\ fpc = "cache"
    /\ pending = {}
    /\ numMentionsInQuery = 0
    /\ numPagesInQuery = 0
    /\ dbTweets = {}
    /\ dbUsers = {}
    /\ seed = <<>>
    /\ live = <<>>
    /\ queries = <<>>
    /\ counts = <<>>
    /\ cacheRead = FALSE
    /\ cacheWrites = {}
    /\ errored = FALSE

\* if (!ctx.noCache) { cachedResult = await db.getCachedUserMentionsForUserSince(..)
\*   if (cachedResult?.mentions.length > 0) { seed the result } }
ReadCache ==
    /\ fpc = "cache"
    /\ IF ~CtxNoCache(fctx)
       THEN LET cachedResult ==
                    getCachedUserMentionsForUserSince(
                        cacheStore, IF Truthy(sinceId) THEN sinceId ELSE 0)
            IN  /\ cacheRead' = TRUE
                /\ IF Len(cachedResult.mentions) > 0
                   THEN /\ result' =
                             [mentions |-> result.mentions \o cachedResult.mentions,
                              users |-> cachedResult.users \cup result.users,
                              tweets |-> cachedResult.tweets \cup result.tweets,
                              sinceMentionId |->
                                  maxTwitterId(result.sinceMentionId,
                                               cachedResult.sinceMentionId)]
                        /\ seed' = cachedResult.mentions
                   ELSE UNCHANGED <<result, seed>>
       ELSE UNCHANGED <<cacheRead, result, seed>>
    /\ fpc' = "query"
    /\ UNCHANGED <<fflags, fctx, feed, newestFirst, cacheStore, sinceId, pending,
                   numMentionsInQuery, numPagesInQuery, dbTweets, dbUsers, live,
                   queries, counts, cacheWrites, errored>>
    /\ UNCHANGED <<loopVars, threadVars, botVars>>

\* const mentionsQuery = twitter.usersIdMentions(userId,
\*   { ...opts, since_id: result.sinceMentionId }, ctx)
StartQuery ==
    /\ fpc = "query"
    /\ queries' = Append(queries, result.sinceMentionId)
    /\ pending' = QueryResult(feed, result.sinceMentionId)
    /\ numMentionsInQuery' = 0
    /\ numPagesInQuery' = 0
    /\ fpc' = "page"
    /\ UNCHANGED <<fflags, fctx, feed, newestFirst, cacheStore, sinceId, result,
                   dbTweets, dbUsers, seed, live, counts, cacheRead, cacheWrites,
                   errored>>
    /\ UNCHANGED <<loopVars, threadVars, botVars>>

\* a page of the query is due: the first one, or one more while mentions remain
PageDue == fpc = "page" /\ (pending # {} \/ numPagesInQuery = 0)

\* for await (const page of mentionsQuery) { ... }: one page
ReadPage ==
    /\ PageDue
    /\ LET page == NextPageOf(pending, newestFirst)
           ids == Range(page)
       IN  /\ numPagesInQuery' = numPagesInQuery + 1
           /\ numMentionsInQuery' = numMentionsInQuery + Len(page)
           /\ result' =
                [mentions |-> result.mentions \o page,
                 users |-> result.users \cup {AuthorOf(m) : m \in ids},
                 tweets |-> result.tweets \cup {ReferencedBy(m) : m \in ids},
                 sinceMentionId |-> RaiseSinceId(result.sinceMentionId, page)]
           /\ IF Len(page) > 0 /\ ~CtxNoCache(fctx)
              THEN /\ cacheStore' = cacheStore \cup ids
                   /\ cacheWrites' = cacheWrites \cup ids
              ELSE UNCHANGED <<cacheStore, cacheWrites>>
           /\ live' = live \o page
           /\ pending' = pending \ ids
    /\ UNCHANGED <<fpc, fflags, fctx, feed, newestFirst, sinceId, dbTweets,
                   dbUsers, seed, queries, counts, cacheRead, errored>>
    /\ UNCHANGED <<loopVars, threadVars, botVars>>

\* the pages of the query are exhausted:
\* if (numMentionsInQuery < 5 || !ctx.resolveAllMentions) break
EndQuery ==
    /\ fpc = "page"
    /\ ~PageDue
    /\ counts' = Append(counts, numMentionsInQuery)
    /\ fpc' = IF StopAfterQuery(numMentionsInQuery, fctx) THEN "flush" ELSE "query"
    /\ UNCHANGED <<fflags, fctx, feed, newestFirst, cacheStore, sinceId, result,
                   pending, numMentionsInQuery, numPagesInQuery, dbTweets,
                   dbUsers, seed, live, queries, cacheRead, cacheWrites, errored>>
    /\ UNCHANGED <<loopVars, threadVars, botVars>>

\* the remote feed fails on the page that is due: catch (err) { ... }
RemoteError ==
    /\ PageDue
    /\ errored' = TRUE
    /\ fpc' = CatchOutcome(result)
    /\ UNCHANGED <<fflags, fctx, feed, newestFirst, cacheStore, sinceId, result,
                   pending, numMentionsInQuery, numPagesInQuery, dbTweets,
                   dbUsers, seed, live, queries, counts, cacheRead, cacheWrites>>
    /\ UNCHANGED <<loopVars, threadVars, botVars>>

\* await db.upsertTweets(Object.values(result.tweets))
\* await db.upsertTwitterUsers(Object.values(result.users)); return result
FlushAndReturn ==
    /\ fpc = "flush"
    /\ dbTweets' = dbTweets \cup result.tweets
    /\ dbUsers' = dbUsers \cup result.users
    /\ fpc' = "returned"
    /\ UNCHANGED <<fflags, fctx, feed, newestFirst, cacheStore, sinceId, result,
                   pending, numMentionsInQuery, numPagesInQuery, seed, live,
                   queries, counts, cacheRead, cacheWrites, errored>>
    /\ UNCHANGED <<loopVars, threadVars, botVars>>

NextFetch ==
    \/ ReadCache
    \/ StartQuery
    \/ ReadPage
    \/ EndQuery
    \/ RemoteError
    \/ FlushAndReturn

vars == <<loopVars, fetchVars, threadVars, botVars>>

\* One process; the cache flag is not read by the loop
LoopFlags == {f \in Flags : ~f.noMentionsCache}

Init == InitLoop({1}, LoopFlags) /\ FetchIdle /\ ThreadIdle /\ BotIdle

Next ==
    \E p \in procs :
        \/ Startup(p)
        \/ StartupFails(p)
        \/ \E b \in TweetMentionBatch : RunBatch(p, b)
        \/ BatchThrows(p)
        \/ ReadCursor(p)
        \/ WriteCursor(p)
        \/ StoreThrows(p)
        \/ ExitCheck(p)
        \/ NetworkBackoff(p)
        \/ RateLimitBackoff(p)
        \/ AuthRefresh(p)
        \/ AuthRefreshThrows(p)
        \/ CatchTopLevel(p)
        \/ CatchRefreshThrows(p)

Spec == Init /\ [][Next]_vars

\* Two processes of the same bot account, started without flags, whose batches
\* report no error flag and whose calls do not throw
ConcFlags == {NoFlags}

PlainBatches ==
    {b \in TweetMentionBatch : /\ ~b.hasNetworkError
                               /\ ~b.hasTwitterRateLimitError
                               /\ ~b.hasTwitterAuthError}

InitConc ==
    InitLoop({1, 2}, ConcFlags) /\ FetchIdle /\ ThreadIdle /\ BotIdle

NextConc ==
    \E p \in procs :
        \/ Startup(p)
        \/ \E b \in PlainBatches : RunBatch(p, b)
        \/ ReadCursor(p)
        \/ WriteCursor(p)
        \/ ExitCheck(p)
        \/ NetworkBackoff(p)
        \/ RateLimitBackoff(p)
        \/ AuthRefresh(p)

SpecConc == InitConc /\ [][NextConc]_vars

\* One call of the fetcher, by a process started with any cache and
\* exhaustive-mode flags
SpecFetch == InitFetch /\ [][NextFetch]_vars

\* One call of the fetcher in exhaustive mode, with or without the cache
\* flag. The call is one sequential async function over a finite feed: every
\* awaited page, cache read and upsert settles (with a page or with an
\* error), so a step that is enabled is eventually taken.
InitFetchExhaustive ==
    /\ InitFetch
    /\ fflags.resolveAllMentions
    /\ fflags.sinceMentionId = Undefined
    /\ persisted = Undefined

SpecFetchExhaustive ==
    InitFetchExhaustive /\ [][NextFetch]_vars /\ WF_vars(NextFetch)

\* One call of the thread resolver, with no control loop running and an empty
\* cursor store
InitThread ==
    /\ InitLoop({}, Flags) /\ persisted = Undefined /\ FetchIdle /\ BotIdle
    /\ InitThreadCall

SpecThread == InitThread /\ [][NextThread]_vars

\* The call is one sequential async function: every awaited lookup settles, so
\* a step that is enabled is eventually taken.
SpecThreadLive == SpecThread /\ WF_vars(NextThread)

\* One call of the bot-noise classifier
InitBot ==
    /\ InitLoop({}, Flags) /\ persisted = Undefined /\ FetchIdle /\ ThreadIdle
    /\ InitBotCall

SpecBot == InitBot /\ [][NextBot]_vars

----------------------------------------------------------------------------
\* Properties of the control loop

\* process p has completed db.setSinceMentionId in the current iteration
Wrote(p) ==
    /\ pc[p] = "exitCheck"
    /\ BatchAdvancesCursor(ctx[p], batch[p])
    /\ UsesCursorStore(ctx[p])
    /\ ShouldPersist(ctx[p])

\* the step is process p's write of the durable cursor
WriteStep(p) == pc[p] = "write" /\ pc'[p] = "exitCheck"

\* C1: with one control-loop process the persisted cursor never decreases in
\* numeric twitter-id order, whatever the batches return or throw.
CursorMonotonic == [][NumericLeq(persisted, persisted')]_vars

\* C1 witness: a second batch was run and the cursor was written above its
\* value at startup.
CursorAdvancedWitness ==
    \E p \in procs : /\ Wrote(p) /\ numBatches[p] >= 2
                      /\ persisted = ctx[p].sinceMentionId
                      /\ startCursor[p] # Undefined
                      /\ persisted > startCursor[p]

\* C2 (as claimed): with interleaved processes no write stores a value lower
\* than the value persisted immediately before that write.
NoWriteRegresses ==
    [][\A p \in procs : WriteStep(p) => NumericLeq(persisted, persisted')]_vars

\* C2 (amended): every write stores the writer's merged in-memory cursor, which
\* is never lower than the value that writer read in the same iteration.
WriteAtLeastRead ==
    [][\A p \in procs : WriteStep(p) =>
          /\ persisted' = ctx[p].sinceMentionId
          /\ NumericLeq(recentSinceMentionId[p], persisted')]_vars

\* C2 witness: a process is about to write although another process has stored
\* a higher cursor since it read.
StaleWriterWitness ==
    \E p, q \in procs :
        /\ p # q /\ pc[p] = "write" /\ Wrote(q)
        /\ persisted = ctx[q].sinceMentionId
        /\ recentSinceMentionId[p] < persisted
        /\ ctx[p].sinceMentionId < persisted

\* C3 (as claimed): every written value is the maximum of the previous
\* persisted value and the batch cursors reported so far.
WriteIsMaxOfStoreAndBatches ==
    [][\A p \in procs : WriteStep(p) =>
          persisted' = MaxOf({persisted, maxBatchId[p]})]_vars

\* C3 (amended): every written value is the maximum of the previous persisted
\* value, the batch cursors reported so far and the sinceMentionId override.
WriteIsMaxOfStoreBatchesOverride ==
    [][\A p \in procs : WriteStep(p) =>
          persisted' = MaxOf({persisted, maxBatchId[p],
                              flags[p].sinceMentionId})]_vars

\* C3 witness: a write stored the override, which is above the previous
\* persisted value and above every batch cursor.
OverrideWrittenWitness ==
    \E p \in procs : /\ Wrote(p)
                      /\ persisted = flags[p].sinceMentionId
                      /\ persisted > maxBatchId[p]
                      /\ persisted > startCursor[p]

\* the current iteration of process p has passed through the catch block
Caught(p) == 5000 \in slept[p]

\* process p was started with earlyExit or with a non-empty debug tweet-id set
ExitRequested(p) == flags[p].earlyExit \/ Len(flags[p].debugTweetIds) > 0

\* C11: the loop ends only by earlyExit or a non-empty debug tweet-id set
\* (exit 0) or by a failure at startup (exit 1, before any batch); no
\* exception of an iteration, the credential refresh included, ends it.
LoopEndsOnlyByFlagOrStartup ==
    \A p \in procs :
        /\ pc[p] = "exit1" => numBatches[p] = 0
        /\ pc[p] = "exit0" => ExitRequested(p)

\* C12: when a batch starts after a credential refresh, the client in the
\* context passed to respondToNewMentions is the refreshed client.
NextBatchUsesRefreshedClient ==
    \A p \in procs :
        (pc[p] = "batch" /\ refreshed[p]) =>
            ctx[p].twitterClient = twitterClient[p]

NoCursorWriteWhenExitRequested ==
    \A p \in procs : ExitRequested(p) => persisted = startCursor[p]

\* C15: in dry-run mode no step of the loop changes the durable cursor.
DryRunNeverWrites ==
    [][\A p \in procs : flags[p].dryRun => persisted' = persisted]_vars

\* C15 witness: a dry-run iteration has merged a batch cursor above the
\* durable cursor into the in-memory cursor and has passed the write.
DryRunLocalAdvanceWitness ==
    \E p \in procs :
        /\ flags[p].dryRun /\ pc[p] = "exitCheck"
        /\ BatchAdvancesCursor(ctx[p], batch[p]) /\ UsesCursorStore(ctx[p])
        /\ persisted # Undefined /\ persisted = startCursor[p]
        /\ ctx[p].sinceMentionId > persisted

\* C16: in an iteration that does not throw, each mitigation is taken exactly
\* when its own flag is set in the batch, whatever the two other flags, and
\* all of them before the next batch starts: the 10 s sleep for
\* hasNetworkError, the 30 s sleep for hasTwitterRateLimitError, the
\* credential refresh for hasTwitterAuthError.
MitigationsIndependent ==
    \A p \in procs : ~Caught(p) =>
        /\ pc[p] \in {"rateLimit", "auth"} \/ (pc[p] = "batch" /\ numBatches[p] > 0)
              => (10000 \in slept[p] <=> batch[p].hasNetworkError)
        /\ pc[p] = "auth" \/ (pc[p] = "batch" /\ numBatches[p] > 0)
              => (30000 \in slept[p] <=> batch[p].hasTwitterRateLimitError)
        /\ (pc[p] = "batch" /\ numBatches[p] > 0)
              => (refreshed[p] <=> batch[p].hasTwitterAuthError)

\* C16 witness: a batch with the three flags set was followed by both sleeps
\* and the refresh, and the next batch is about to start.
AllMitigationsWitness ==
    \E p \in procs :
        /\ pc[p] = "batch" /\ numBatches[p] > 0 /\ ~Caught(p)
        /\ batch[p].hasNetworkError /\ batch[p].hasTwitterRateLimitError
        /\ batch[p].hasTwitterAuthError
        /\ slept[p] = {10000, 30000} /\ refreshed[p]

----------------------------------------------------------------------------
\* Properties of getTwitterUserIdMentions

Returned == fpc = "returned"

\* the sum of the first n entries of a sequence of numbers
RECURSIVE SumFirst(_, _)
SumFirst(q, n) == IF n = 0 THEN 0 ELSE q[n] + SumFirst(q, n - 1)

\* the ids known to the call before its i-th query: the input since id, the
\* cached seed and the mentions of the queries completed before it
SeenBeforeQuery(i) ==
    {sinceId} \cup Range(seed)
              \cup {live[j] : j \in 1..SumFirst(counts, i - 1)}

NoMentionSkipped ==
    Returned =>
        \A m \in feed :
            (NumericLeq(sinceId, m) /\ m # sinceId /\ m <= result.sinceMentionId)
                => m \in Range(result.mentions)

\* C6: a remote failure after at least one page with mentions does not fail the
\* call: it ends with exactly the cached seed and the pages read, and a since id
\* that reflects only those.
PartialSuccessKeepsPagesRead ==
    (errored /\ Len(live) > 0) =>
        /\ fpc \in {"flush", "returned"}
        /\ result.mentions = seed \o live
        /\ result.sinceMentionId =
               MaxOf({sinceId} \cup Range(seed) \cup Range(live))

\* C6 witness: the call returned after the feed failed on the third page.
PartialSuccessWitness ==
    /\ Returned /\ errored /\ numPagesInQuery = 2 /\ pending # {}
    /\ Len(live) = 2 * PageSize

\* C7: a remote error with no mention accumulated fails the call; no call
\* returns an empty mentions list after a remote error.
ErrorWithNothingThrows ==
    /\ (errored /\ Len(result.mentions) = 0) => fpc = "thrown"
    /\ (errored /\ fpc \in {"flush", "returned"}) => Len(result.mentions) > 0

\* C7 witness: the call threw on the first page of a feed that had mentions.
ThrownWitness ==
    /\ fpc = "thrown" /\ errored /\ pending # {} /\ Len(result.mentions) = 0

\* C8 (as claimed): without resolveAllMentions the call re-fetches until a fetch
\* yields fewer than 5 mentions; with it the threshold does not end the call,
\* which ends only once a fetch finds the backlog drained.
StopsBelowThresholdUnlessExhaustive ==
    (Returned /\ ~errored) =>
        IF ~fctx.resolveAllMentions
        THEN /\ counts[Len(counts)] < Threshold
             /\ \A i \in 1..(Len(counts) - 1) : counts[i] >= Threshold
        ELSE counts[Len(counts)] = 0

\* C8 (amended): without resolveAllMentions the call issues exactly one full
\* paginated fetch; with it the call re-fetches from the raised since id and
\* stops at the first fetch that yields fewer than 5 mentions.
OneFetchUnlessExhaustive ==
    (Returned /\ ~errored) =>
        /\ Len(queries) = Len(counts)
        /\ \A i \in 1..Len(queries) : queries[i] = MaxOf(SeenBeforeQuery(i))
        /\ IF ~fctx.resolveAllMentions
           THEN Len(counts) = 1
           ELSE /\ counts[Len(counts)] < Threshold
                /\ \A i \in 1..(Len(counts) - 1) : counts[i] >= Threshold

\* C8 witness: without resolveAllMentions a call returned after one fetch that
\* yielded at least 5 mentions.
OneLargeFetchWitness ==
    /\ Returned /\ ~errored /\ ~fctx.resolveAllMentions
    /\ Len(counts) = 1 /\ counts[1] >= Threshold

\* C9: started with --noMentionsCache, the call neither reads the cached result
\* nor writes mention pages to the cache, and returns live mentions only.
NoMentionsCacheBypassesCache ==
    fflags.noMentionsCache =>
        /\ ~cacheRead
        /\ cacheWrites = {}
        /\ Len(seed) = 0

\* C10: started with resolveAllMentions, the first fetch starts from no prior
\* cursor and the cached result does not seed the fetch.
ResolveAllBypassesCacheAndCursor ==
    (fflags.resolveAllMentions /\ fpc # "off") =>
        /\ sinceId = 0
        /\ Len(queries) > 0 => (queries[1] = 0 /\ Len(seed) = 0)

\* C21: whenever the call has returned a result, after a full fetch or after a
\* remote error with mentions gathered, every referenced post and every author
\* accumulated in the result is in durable storage.
FlushedBeforeReturn ==
    Returned =>
        /\ result.tweets \subseteq dbTweets
        /\ result.users \subseteq dbUsers

\* C21 witness: a call returned after a remote error on a later page; the
\* posts and authors of the pages read before it are stored.
PartialFlushWitness ==
    /\ Returned /\ errored /\ Len(live) > 0
    /\ result.tweets # {} /\ dbTweets = result.tweets
    /\ result.users # {} /\ dbUsers = result.users

\* the call has returned a result or thrown
FetchEnded == fpc \in {"returned", "thrown"}

\* C24: in exhaustive mode the call ends (it returns or throws); every fetch is
\* issued with the maximum identifier seen before it, a re-fetch follows only
\* a fetch that yielded 5 mentions or more, so the first fetch that yields
\* fewer is the last, and no identifier occurs twice among the mentions read
\* from pages.
ExhaustiveFetchEnds ==
    /\ [](fctx.resolveAllMentions =>
            /\ \A i \in 1..Len(queries) : queries[i] = MaxOf(SeenBeforeQuery(i))
            /\ \A i \in 1..Len(counts) :
                  (i < Len(queries)) => counts[i] >= Threshold
            /\ \A i, j \in 1..Len(live) : (i # j) => live[i] # live[j])
    /\ <>(fctx.resolveAllMentions => FetchEnded)

\* C24 witness: an exhaustive call returned after a fetch that yielded 5
\* mentions or more and a re-fetch from the raised since id that yielded fewer.
ExhaustiveRefetchWitness ==
    /\ Returned /\ ~errored /\ fctx.resolveAllMentions
    /\ Len(queries) = 2 /\ Len(counts) = 2
    /\ counts[1] >= Threshold /\ counts[2] < Threshold
    /\ queries[2] = MaxOf(Range(live)) /\ queries[2] > queries[1]

----------------------------------------------------------------------------
\* Properties of resolveMessageThread

ThreadDone == tpc = "done"

\* the id of the post (remote post or prompt tweet of a turn) an entry renders
PostOf(entry) == entry.content[2]

\* what an entry renders: "tweet", "prompt" or "response"
KindOf(entry) == entry.content[1]

\* the turns of the leaf's parent chain that the walk can reach: the stored
\* ones and the leaf
ChainTurns == DOMAIN dbMessages \cup {leafMessage.id}

\* the oldest turn the walk can reach
OldestTurn == CHOOSE t \in ChainTurns : \A u \in ChainTurns : t <= u

\* the older posts the remote walk can gather: those of the replied_to chain of
\* the oldest turn's prompt tweet down to the first post that cannot be fetched
ReachablePrevTweets ==
    IF resolvePrevTweetsInThread /\ OldestTurn \notin remote.unfetchable
       /\ remote.repliedTo[OldestTurn] # Undefined
    THEN {t \in PrevTweetIds :
            /\ t <= remote.repliedTo[OldestTurn]
            /\ \A u \in t..remote.repliedTo[OldestTurn] :
                  u \notin remote.unfetchable}
    ELSE {}

\* C17: the output is chronological, oldest first: posts are rendered in
\* increasing id order, a turn's response right after its prompt, and every
\* remote pre-thread post before every entry of a turn.
ThreadChronological ==
    ThreadDone =>
        \A i, j \in 1..Len(output) : i < j =>
            /\ \/ PostOf(output[i]) < PostOf(output[j])
               \/ /\ PostOf(output[i]) = PostOf(output[j])
                  /\ KindOf(output[i]) = "prompt"
                  /\ KindOf(output[j]) = "response"
            /\ KindOf(output[j]) = "tweet" => KindOf(output[i]) = "tweet"

\* C17 witness: three answered turns T1 -> T2 -> T3 with two older remote posts
\* above T1's prompt tweet are rendered as P2, P1, T1, T2, T3.
FullThreadWitness ==
    /\ ThreadDone
    /\ output = <<MsgUser(<<"tweet", 1>>), MsgUser(<<"tweet", 2>>),
                  MsgUser(<<"prompt", MaxPrevTweets + 1>>),
                  MsgAssistant(<<"response", MaxPrevTweets + 1>>),
                  MsgUser(<<"prompt", MaxPrevTweets + 2>>),
                  MsgAssistant(<<"response", MaxPrevTweets + 2>>),
                  MsgUser(<<"prompt", MaxPrevTweets + 3>>)>>

\* C18: an assistant entry is rendered only for a turn that has a response and
\* is not the leaf, directly after the user entry of that turn's prompt; the
\* leaf's response is never in the output.
AssistantOnlyForAnsweredNonLeaf ==
    ThreadDone =>
        \A i \in 1..Len(output) :
            /\ output[i].role = "assistant" =>
                  /\ KindOf(output[i]) = "response"
                  /\ PostOf(output[i]) \in ChainTurns \ {leafMessage.id}
                  /\ dbMessages[PostOf(output[i])].response = output[i].content
                  /\ i > 1
                  /\ output[i - 1] = MsgUser(<<"prompt", PostOf(output[i])>>)
            /\ output[i].content # <<"response", leafMessage.id>>

\* C18 witness: the leaf carries a response, an older turn's response is
\* rendered, and another older turn without a response has only its prompt
\* rendered.
LeafResponseOmittedWitness ==
    /\ ThreadDone
    /\ leafMessage.response # <<>>
    /\ \E i \in 1..Len(output) : output[i].role = "assistant"
    /\ \E t \in ChainTurns \ {leafMessage.id} :
          /\ dbMessages[t].response = <<>>
          /\ \E i \in 1..Len(output) : output[i] = MsgUser(<<"prompt", t>>)

BrokenChainsTruncate ==
    /\ tpc # "failed"
    /\ ThreadDone =>
          /\ {PostOf(output[i]) : i \in {k \in 1..Len(output) :
                                            KindOf(output[k]) = "tweet"}}
                = ReachablePrevTweets
          /\ {PostOf(output[i]) : i \in {k \in 1..Len(output) :
                                            KindOf(output[k]) = "prompt"}}
                = {t \in ChainTurns :
                      t = leafMessage.id \/ ~dbMessages[t].error}
          /\ \E i \in 1..Len(output) :
                /\ output[i] = MsgUser(leafMessage.prompt)
                /\ \A j \in 1..Len(output) :
                      (j > i) => output[j].role # "user"

\* C20 witness: the parent of the oldest stored turn is not in the store, the
\* remote walk gathered one post before meeting one that cannot be fetched,
\* and the call returned.
TruncatedThreadWitness ==
    /\ ThreadDone
    /\ message.parentMessageId # Undefined
    /\ Len(prevTweetsInThread) = 1
    /\ tweet.replied_to # Undefined
    /\ tweet.replied_to \in remote.unfetchable
    /\ Len(output) >= 3

\* the stored turns above the leaf on its parent chain
StoredAncestors == DOMAIN dbMessages \ {leafMessage.id}

\* the oldest turn the walk can reach names a parent that is not in the store
ParentMissing == ParentIdOf(OldestTurn) # Undefined

\* C23 (as claimed, the bound): the number of db.messages.get calls is at most
\* the number of stored turns on the leaf's parent chain.
LookupsAtMostStoredTurns == numGets <= Cardinality(DOMAIN dbMessages)

\* C23 (amended): the call ends, and it makes one db.messages.get call for each
\* stored turn above the leaf on its parent chain, plus one when the oldest of
\* them (or the leaf, when none is stored) names a parent that is not stored.
ThreadEndsLookupsBounded ==
    /\ [](numGets <= Cardinality(StoredAncestors) + 1)
    /\ [](ThreadDone =>
             numGets = Cardinality(StoredAncestors)
                         + (IF ParentMissing THEN 1 ELSE 0))
    /\ <>ThreadDone

\* C23 witness: the call ended for a leaf that is not stored, with one stored
\* turn above it that names a parent that is not stored; the remote walk made
\* more than one fetch.
MissingParentLookupWitness ==
    /\ ThreadDone
    /\ leafMessage.id \notin DOMAIN dbMessages
    /\ Cardinality(StoredAncestors) = 1
    /\ ParentMissing
    /\ numGets = 2
    /\ numFetches >= 2

----------------------------------------------------------------------------
\* Properties of isLikelyTwitterBot

\* C22: the result is true exactly when the lower-case name the username is a
\* variant of is in the known-bot set or ends with bot, gpt or status; every
\* upper/lower-case variant of a name gets the same result.
LikelyBotIffKnownOrSuffix ==
    bpc = "done" =>
        (isBot <=> \/ lowerName \in twitterKnownBots
                   \/ EndsWith(lowerName, <<"b", "o", "t">>)
                   \/ EndsWith(lowerName, <<"g", "p", "t">>)
                   \/ EndsWith(lowerName, <<"s", "t", "a", "t", "u", "s">>))

\* C22 witness: a name that is not in the known-bot set and is written with
\* upper-case letters in its suffix is a bot by the suffix bot.
SuffixBotWitness ==
    /\ bpc = "done" /\ isBot
    /\ lowerName \notin twitterKnownBots
    /\ Len(lowerName) > 3
    /\ EndsWith(lowerName, <<"b", "o", "t">>)
    /\ ~EndsWith(username, <<"b", "o", "t">>)

====
